---------------------------- MODULE Spec2Model ----------------------------
(***************************************************************************)
(* Contraceptive method choice and transition engine of fpsim              *)
(* (fpsim/methods.py): ContraceptiveChoice, RandomChoice, SimpleChoice and *)
(* EmpoweredChoice, with the loading of the method-choice table, the       *)
(* analyzers (fpsim/analyzers.py) and the update_methods intervention      *)
(* (fp_2022jan_gr/efficacy_scens.py).                                      *)
(*                                                                         *)
(* Conventions.  A numpy array of length n is a function with domain       *)
(* 0..n-1.  An ordered dict (a table cell) is a sequence of                *)
(* [name, share] records in insertion order.  Shares and jitter are        *)
(* integers in units of 1e-4.  Durations are integers in units of 1/100    *)
(* year, so that par1 + age/100 is the integer 100*par1 + age.  The value  *)
(* returned by the logistic link 1/(1+exp(-rhs)) is represented by its     *)
(* argument rhs (the link is strictly increasing, 0 |-> 0.5).              *)
(***************************************************************************)
EXTENDS Integers, Sequences, FiniteSets, TLC

VARIABLES
    ppl,        \* the population view handed to every call
    mcp,        \* EmpoweredChoice.method_choice_pars
    coefs,      \* SimpleChoice.coefficients / EmpoweredChoice.contra_use_pars
    dur_method, \* ContraceptiveChoice.dur_method (years, in 1/100)
    use_dist,   \* method.use_dist['par1'] of every catalog method
    ret,        \* what the last call returned or raised
    prev,       \* what the same call returned in an earlier run
    df,         \* the rows of the method-choice source table
    load,       \* how the last process_method_pars ended
    an,         \* an analyzer attached to the simulation
    an_ret,     \* how the last call on the analyzer ended
    sim_i,      \* sim.i, the tick the simulation is at
    people,     \* sim.people, as the analyzers read it
    seen,       \* sim.people as it was at every tick passed
    sims,       \* the simulations built with update_methods interventions
    scens       \* the scenario objects the interventions hold

vars == <<ppl, mcp, coefs, dur_method, use_dist, ret, prev, df, load,
          an, an_ret, sim_i, people, seen, sims, scens>>

\* the analyzer and the simulation it is attached to
analysis == <<an, an_ret, sim_i, people, seen>>

\* the efficacy scenarios
scenarios == <<sims, scens>>

\* the state of the loader, of the earlier run, of the analyzer and of
\* the scenarios
elsewhere == <<prev, df, load, analysis, scenarios>>

\* the method-choice side: strategies, tables and their calls
choice == <<ppl, mcp, coefs, dur_method, use_dist, ret, prev, df, load>>

---------------------------------------------------------------------------
(* Bounds *)

NAgents == 2            \* agents in the population view
MaxTi == 1              \* largest current tick drawn
MaxJitter == 2          \* jitter samples are drawn from 1..MaxJitter

---------------------------------------------------------------------------
(* Arrays *)

ALen(a) == Cardinality(DOMAIN a)

RECURSIVE SumSeq(_)
SumSeq(s) == IF s = <<>> THEN 0 ELSE Head(s) + SumSeq(Tail(s))

Min(S) == CHOOSE x \in S : \A y \in S : x <= y

\* the arrays a with a[k] \in c[k] for every k, c an array of sets
RECURSIVE Prod(_)
Prod(c) ==
    IF DOMAIN c = {} THEN {<<>>}
    ELSE LET n == ALen(c)
             rest == Prod([i \in 0..n-2 |-> c[i]])
         IN {[i \in 0..n-1 |-> IF i = n-1 THEN v ELSE f[i]] :
               f \in rest, v \in c[n-1]}

\* values an element of np.empty(n) may hold once cast to int
Leftover == {-1, 0, 7}

---------------------------------------------------------------------------
(* Method catalog and age map (fpsim/defaults.py) *)

\* self.methods = ss.ndict(fpd.method_list): name -> method, method.idx is
\* the position in the list
methods == <<"none", "pill", "iud", "othtrad">>

n_methods == Len(methods)

MethodNames == {methods[i] : i \in 1..n_methods}

idx(mname) == (CHOOSE i \in 1..n_methods : methods[i] = mname) - 1

\* method.use_dist['par1'], in 1/100 year
use_dist_par1(mname) ==
    CASE mname = "none" -> 0
      [] mname = "pill" -> 100
      [] mname = "iud" -> 300
      [] OTHER -> 0

\* fpd.immutable_method_age_map: key -> (age_low, age_high)
immutable_method_age_map == <<[key |-> "<18", age_low |-> 0, age_high |-> 18],
                              [key |-> "18+", age_low |-> 18, age_high |-> 100]>>

AgeKeys == {immutable_method_age_map[i].key : i \in 1..Len(immutable_method_age_map)}

\* fpu.match_ages(age, age_low, age_high): age in [low, high)
match_ages(age, age_low, age_high) == age >= age_low /\ age < age_high

\* range(7) in choose_method
NParity == 7

---------------------------------------------------------------------------
(* EmpoweredChoice.choose_method *)

Cell(key, parity) == mcp[key][parity]

\* [v for k, v in mcp[key][parity].items() if k != mname]
RECURSIVE Reduced(_, _)
Reduced(cell, mname) ==
    IF cell = <<>> THEN <<>>
    ELSE IF Head(cell).name # mname
         THEN <<Head(cell).share>> \o Reduced(Tail(cell), mname)
         ELSE Reduced(Tail(cell), mname)

\* [p if p > 0 else p + fpu.sample(**jitter_dist)[0] for p in these_probs]
\* j[i] is the i-th jitter sample
Jittered(probs, j) ==
    [i \in 1..Len(probs) |-> IF probs[i] > 0 THEN probs[i] ELSE probs[i] + j[i]]

\* np.array(these_probs)/sum(these_probs): entry i is w[i]/total
Renormalize(probs) == [w |-> probs, total |-> SumSeq(probs)]

\* np.cumsum(w): entry i is w[1] + ... + w[i]
cumsum(w) == [i \in 1..Len(w) |-> SumSeq(SubSeq(w, 1, i))]

\* np.searchsorted(a, v), side 'left', a binary search between lo and hi;
\* less[i] says a[i] < v (0-based)
RECURSIVE searchsorted(_, _, _)
searchsorted(less, lo, hi) ==
    IF lo >= hi THEN lo
    ELSE LET mid == lo + (hi - lo) \div 2
         IN IF less[mid] THEN searchsorted(less, mid + 1, hi)
            ELSE searchsorted(less, lo, mid)

\* fpu.n_multinomial(probs, n): searchsorted(cumsum(probs), random(n)).
\* The positions one trial can give.  The uniform number is c/(2*total),
\* c ranging over the sums of two thresholds (0, total and the partial
\* sums of w), one value inside every interval the thresholds cut [0, 1)
\* into.  For non-negative weights these are the positions of positive
\* probability; for an empty vector, position 0.  With total = 0 and
\* weights present the entries are +-inf or nan, and a partial sum is less
\* than the uniform number only while every weight so far is negative.
n_multinomial(p) ==
    LET n == Len(p.w)
        cum == cumsum(p.w)
        sgn == IF p.total < 0 THEN -1 ELSE 1
        Th == {0, p.total} \cup {cum[i] : i \in 1..n}
        C == {c \in {a + b : a, b \in Th} :
                /\ 0 < sgn * c /\ sgn * c < 2 * sgn * p.total
                /\ \A i \in 1..n : c # 2 * cum[i]}
    IN IF p.total = 0
       THEN {searchsorted([i \in 0..n-1 |-> \A q \in 1..i+1 : p.w[q] < 0], 0, n)}
       ELSE {searchsorted([i \in 0..n-1 |-> sgn * 2 * cum[i+1] < sgn * c], 0, n) :
               c \in C}

\* np.array([self.methods[m].idx for m in mcp[key][parity].keys()])
method_inds(cell) == [i \in 0..Len(cell)-1 |-> idx(cell[i+1].name)]

Strata ==
    {<<a, parity, m>> : a \in 1..Len(immutable_method_age_map),
                        parity \in 0..NParity-1, m \in 1..n_methods}

\* switch_iinds restricted to the agents whose review tick has arrived
switch_iinds_due(inds, s) ==
    LET band == immutable_method_age_map[s[1]]
    IN {k \in DOMAIN inds :
          /\ match_ages(ppl.age[inds[k]], band.age_low, band.age_high)
          /\ ppl.parity[inds[k]] = s[2]
          /\ ppl.method[inds[k]] = idx(methods[s[3]])
          /\ ppl.ti_update[inds[k]] <= ppl.ti}

\* using_this_method.nonzero()[-1]
switch_iinds(inds, s) ==
    LET band == immutable_method_age_map[s[1]]
    IN {k \in DOMAIN inds :
          /\ match_ages(ppl.age[inds[k]], band.age_low, band.age_high)
          /\ ppl.parity[inds[k]] = s[2]
          /\ ppl.method[inds[k]] = idx(methods[s[3]])}

StratumOf(inds, k) == {s \in Strata : k \in switch_iinds(inds, s)}

StratumCell(s) == Cell(immutable_method_age_map[s[1]].key, s[2])

\* the renormalised candidate probabilities of stratum s under jitter j
these_probs(s, j) ==
    Renormalize(Jittered(Reduced(StratumCell(s), methods[s[3]]), j))

StratumRank(s) == ((s[1] - 1) * NParity + s[2]) * n_methods + s[3]

\* table cells: ordered method name -> share (1e-4)
CellABC == <<[name |-> "pill", share |-> 0], [name |-> "iud", share |-> 6000],
             [name |-> "othtrad", share |-> 4000]>>

CellTwo == <<[name |-> "othtrad", share |-> 5000],
             [name |-> "pill", share |-> 5000]>>

CellOnly == <<[name |-> "othtrad", share |-> 10000]>>

CellNone == <<>>

\* a cell with a negative share
CellNeg == <<[name |-> "pill", share |-> -3000], [name |-> "iud", share |-> 7000],
             [name |-> "othtrad", share |-> 6000]>>

Cells == {CellABC, CellTwo, CellOnly, CellNone, CellNeg}

\* longest table cell: bounds the jitter samples and candidate positions
MaxCellLen == CHOOSE n \in 0..8 : /\ \E c \in Cells : Len(c) = n
                                  /\ \A c \in Cells : Len(c) <= n

\* np.arange(len(ppl))
arange == [i \in 0..NAgents-1 |-> i]

\* an optional argument: not passed (None), or passed with value v
None == [given |-> FALSE, v |-> <<>>]
Some(v) == [given |-> TRUE, v |-> v]

\* index subsets: increasing arrays of agent ordinals, as a boolean mask
\* or np.nonzero gives them
IndexSubsets ==
    UNION {{a \in [0..n-1 -> 0..NAgents-1] :
              \A i, j \in 0..n-1 : i < j => a[i] < a[j]} : n \in 0..NAgents}

\* index subsets holding an index that is not an agent ordinal
OutOfRange == {[k \in 0..0 |-> v] : v \in {-NAgents - 1, -1, NAgents}}

\* ppl.age[inds] and the like: numpy raises IndexError for an index outside
\* -n..n-1 and counts a negative index from the end
InBounds(a) == \A k \in DOMAIN a : a[k] \in -NAgents..NAgents-1

Wrapped(a) == [k \in DOMAIN a |-> IF a[k] < 0 THEN a[k] + NAgents ELSE a[k]]

\* the agents the entries of an index argument are read from: every agent
\* when it is not passed, none when the indexing raises
Resolved(arg) ==
    IF ~arg.given THEN arange
    ELSE IF InBounds(arg.v) THEN Wrapped(arg.v) ELSE <<>>

\* a call that returned.  value is the returned array; the other fields
\* describe how it was computed: inds the agents its entries belong to,
\* assigned which entries were written, draws the multinomial draws made,
\* loc and dur the location parameter and the sampled duration per entry
Returned(op, cls, arg, inds, value, assigned, draws, loc, dur) ==
    [op |-> op, cls |-> cls, status |-> "ok", err |-> "", arg |-> arg,
     inds |-> inds, value |-> value, assigned |-> assigned,
     draws |-> draws, loc |-> loc, dur |-> dur]

\* a call that raised err
Raised(op, cls, arg, err, draws) ==
    [op |-> op, cls |-> cls, status |-> "raised", err |-> err, arg |-> arg,
     inds |-> <<>>, value |-> <<>>, assigned |-> <<>>,
     draws |-> draws, loc |-> <<>>, dur |-> <<>>]

\* jitter sampled anew for every agent of the stratum
jitter_per_agent(inds, J, s, k) == J[k]

\* the jitter samples behind the draw of entry k of stratum s: they are
\* sampled in the body of `if len(switch_iinds)`, once for the stratum, and
\* n_multinomial draws every member from the one renormalised vector
jitter_of(inds, J, s, k) == J[Min(switch_iinds(inds, s))]

\* EmpoweredChoice.choose_method(ppl, inds, jitter=1e-4) with the random
\* numbers it consumes: J[k] the jitter samples of the stratum whose first
\* member is entry k, pick[k] the multinomial outcome of entry k, g[k] what
\* np.empty left in entry k
choose_method(arg, J, pick, g) ==
    LET inds == Resolved(arg)
        nonempty == {s \in Strata : switch_iinds(inds, s) # {}}
        probs(s, k) == these_probs(s, jitter_of(inds, J, s, k))
        \* method_inds[these_choices] is out of bounds
        fails(s) == \E k \in switch_iinds(inds, s) :
                       pick[k] \notin DOMAIN method_inds(StratumCell(s))
        failing == {s \in nonempty : fails(s)}
        first == CHOOSE s \in failing :
                    \A t \in failing : StratumRank(s) <= StratumRank(t)
        \* the vectors the members of the strata S were drawn from
        log(S) == UNION {{[stratum |-> s, w |-> probs(s, k).w,
                           total |-> probs(s, k).total,
                           n |-> Cardinality(switch_iinds(inds, s))] :
                            k \in switch_iinds(inds, s)} : s \in S}
        choice_array ==
            [k \in DOMAIN inds |->
                IF StratumOf(inds, k) = {} THEN g[k]
                ELSE LET s == CHOOSE s \in StratumOf(inds, k) : TRUE
                     IN method_inds(StratumCell(s))[pick[k]]]
        assigned == [k \in DOMAIN inds |-> StratumOf(inds, k) # {}]
    IN IF arg.given /\ ~InBounds(arg.v)
       THEN Raised("choose_method", "EmpoweredChoice", arg, "IndexError", {})
       ELSE IF failing # {}
       THEN Raised("choose_method", "EmpoweredChoice", arg, "IndexError",
                   log({s \in nonempty : StratumRank(s) <= StratumRank(first)}))
       ELSE Returned("choose_method", "EmpoweredChoice", arg, inds,
                     choice_array, assigned, log(nonempty), <<>>, <<>>)

\* the jitter samples a stratum with candidate shares raw can consume:
\* one per candidate whose share is not positive (the others are fixed to 1
\* here, they are never drawn)
JitterDraws(raw) ==
    {j \in [1..MaxCellLen -> 1..MaxJitter] :
        \A i \in 1..MaxCellLen : (i > Len(raw) \/ raw[i] > 0) => j[i] = 1}

Ones == [i \in 1..MaxCellLen |-> 1]

\* the random numbers one call of choose_method can consume
ChooseJ(inds) ==
    Prod([k \in DOMAIN inds |->
            IF StratumOf(inds, k) = {} THEN {Ones}
            ELSE LET s == CHOOSE s \in StratumOf(inds, k) : TRUE
                 IN IF k = Min(switch_iinds(inds, s))
                    THEN JitterDraws(Reduced(StratumCell(s), methods[s[3]]))
                    ELSE {Ones}])

ChoosePick(inds, J) ==
    Prod([k \in DOMAIN inds |->
            IF StratumOf(inds, k) = {} THEN {0}
            ELSE LET s == CHOOSE s \in StratumOf(inds, k) : TRUE
                 IN n_multinomial(these_probs(s, J[Min(switch_iinds(inds, s))]))])

ChooseLeftover(inds) ==
    Prod([k \in DOMAIN inds |->
            IF StratumOf(inds, k) = {} THEN Leftover ELSE {0}])

Args == {None} \cup {Some(a) : a \in IndexSubsets \cup OutOfRange}

EmpoweredChooseMethod ==
    \E arg \in Args :
      LET inds == Resolved(arg)
      IN /\ ret.op = ""
         /\ \E J \in ChooseJ(inds) :
              \E pick \in ChoosePick(inds, J), g \in ChooseLeftover(inds) :
                /\ ret' = choose_method(arg, J, pick, g)
                /\ UNCHANGED <<ppl, mcp, coefs, dur_method, use_dist, elsewhere>>

\* RandomChoice.choose_method(self, ppl), inherited by SimpleChoice: takes
\* no index subset; one uniform draw from the catalog per agent of ppl
RandomChooseMethod ==
    \E cls \in {"RandomChoice", "SimpleChoice"}, arg \in Args :
      /\ ret.op = ""
      /\ IF arg.given
         THEN ret' = Raised("choose_method", cls, arg, "TypeError", {})
         ELSE \E choice_arr \in [0..NAgents-1 -> 0..n_methods-1] :
                ret' = Returned("choose_method", cls, arg, arange, choice_arr,
                                [k \in 0..NAgents-1 |-> TRUE], {}, <<>>, <<>>)
      /\ UNCHANGED <<ppl, mcp, coefs, dur_method, use_dist, elsewhere>>

---------------------------------------------------------------------------
(* set_dur_method *)

\* fpd.mpy: months per year
mpy == 12

\* sc.randround(x) for x = num/den: floor(x + u), u uniform in [0, 1)
randround(num, den) ==
    {num \div den} \cup (IF num % den # 0 THEN {num \div den + 1} ELSE {})

\* fpu.sample(**dist_dict): the durations (1/100 year) one draw can give
\* from a distribution with location parameter loc
sample(loc) == {0, 4, loc}

\* ContraceptiveChoice.set_dur_method(self, ppl, method_used=None)
\* dur_method/dt = dur_method * mpy / timestep
set_dur_method(cls, method_used, r) ==
    Returned("set_dur_method", cls, method_used, arange,
             [k \in 0..NAgents-1 |-> r], [k \in 0..NAgents-1 |-> TRUE],
             {}, <<>>, [k \in 0..NAgents-1 |-> dur_method])

BaseSetDurMethod ==
    \E cls \in {"RandomChoice", "SimpleChoice"} :
      \E method_used \in IF ret.op = "" THEN {None, Some(<<>>)}
                         ELSE IF ret.op = "choose_method" /\ ret.status = "ok"
                                 /\ ret.cls = cls
                         THEN {Some(ret.value)} ELSE {},
         r \in randround(ppl.ti * 100 * ppl.timestep + dur_method * mpy,
                         100 * ppl.timestep) :
        /\ ret' = set_dur_method(cls, method_used, r)
        /\ UNCHANGED <<ppl, mcp, coefs, dur_method, use_dist, elsewhere>>

\* the location parameter of entry k taken from the catalog as
\* fpd.method_list defines it, whatever the catalog holds now
DurLoc_cached(method_used, k) ==
    use_dist_par1(methods[method_used[k] + 1]) + ppl.age[k]

\* the location parameter used for entry k of dur_method:
\* dist_dict['par1'] + ppl.age[users]/100, users being positions of
\* method_used; dist_dict is read from method.use_dist in every call
DurLoc(method_used, k) ==
    use_dist[methods[method_used[k] + 1]] + ppl.age[k]

\* entries of dur_method written by the loop over the catalog
DurUsers(method_used) ==
    {k \in DOMAIN method_used : method_used[k] \in 0..n_methods-1}

\* EmpoweredChoice.set_dur_method(self, ppl, method_used=None) with the
\* random numbers it consumes: d[k] the duration sampled for entry k, r[k]
\* its rounding to ticks, g[k] what np.empty left in entry k.  of is the
\* index subset the entries of method_used belong to (not an argument).
Empowered_set_dur_method(arg, of, d, r, g) ==
    LET method_used == IF arg.given THEN arg.v ELSE ppl.method
        users == DurUsers(method_used)
    IN IF \E k \in users : k \notin 0..NAgents-1
       THEN Raised("set_dur_method", "EmpoweredChoice", arg, "IndexError", {})
       ELSE Returned("set_dur_method", "EmpoweredChoice", arg, of,
                     [k \in 0..NAgents-1 |->
                        IF k \in users THEN ppl.ti + r[k] ELSE g[k]],
                     [k \in 0..NAgents-1 |-> k \in users], {},
                     [k \in 0..NAgents-1 |->
                        IF k \in users THEN DurLoc(method_used, k) ELSE 0],
                     d)

\* dist_dict = method.use_dist, the catalog's own dict: what is written
\* to dist_dict is written to the catalog
dcp_shared(obj) == [shared |-> TRUE, v |-> obj]

\* sc.dcp(obj): a deep copy; what is written to it does not reach obj
dcp(obj) == [shared |-> FALSE, v |-> obj]

\* the catalog after the loop over the methods:
\* dist_dict['par1'] = dist_dict['par1'] + ppl.age[users]/100 is written
\* to dist_dict, for every method with users
use_dist_after(method_used) ==
    [mname \in MethodNames |->
       LET dist_dict == dcp(use_dist[mname])
           users == {k \in DurUsers(method_used) \cap (0..NAgents-1) :
                       method_used[k] = idx(mname)}
       IN IF dist_dict.shared /\ users # {}
          THEN dist_dict.v + ppl.age[Min(users)]
          ELSE use_dist[mname]]

EmpoweredSetDurMethod ==
    \E pass \in IF ret.op = "" THEN {"none", "empty"}
                ELSE IF ret.op = "choose_method" /\ ret.status = "ok"
                        /\ ret.cls = "EmpoweredChoice"
                THEN {"chosen"} ELSE {} :
      LET arg == CASE pass = "none" -> None
                   [] pass = "empty" -> Some(<<>>)
                   [] OTHER -> Some(ret.value)
          of == CASE pass = "none" -> arange
                  [] pass = "empty" -> <<>>
                  [] OTHER -> ret.inds
          method_used == IF arg.given THEN arg.v ELSE ppl.method
          users == DurUsers(method_used) \cap (0..NAgents-1)
      IN \E d \in Prod([k \in 0..NAgents-1 |->
                          IF k \in users THEN sample(DurLoc(method_used, k))
                          ELSE {0}]) :
           \E r \in Prod([k \in 0..NAgents-1 |->
                            IF k \in users
                            THEN randround(d[k] * mpy, 100 * ppl.timestep)
                            ELSE {0}]),
              g \in Prod([k \in 0..NAgents-1 |->
                            IF k \in users THEN {0} ELSE Leftover]) :
             /\ ret' = Empowered_set_dur_method(arg, of, d, r, g)
             /\ use_dist' = use_dist_after(method_used)
             /\ UNCHANGED <<ppl, mcp, coefs, dur_method, elsewhere>>

---------------------------------------------------------------------------
(* get_prob_use and get_contra_users *)

\* the names EmpoweredChoice.get_prob_use reads from contra_use_pars
CoefNames == {"intercept", "age", "parity", "contraception", "urban",
              "edu_attainment", "paid_employment", "decision_wages",
              "decision_health", "sexual_autonomy"}

\* the attribute of ppl each coefficient multiplies in
\* EmpoweredChoice.get_prob_use
Attr(vname) == IF vname = "contraception" THEN ppl.on_contra ELSE ppl[vname]

\* the attribute added to rhs as it is, the coefficient being added
\* instead of multiplied in
Term_added(vval, x) == vval + x

\* vval * ppl[vname], one term of rhs for one agent
Term(vval, x) == vval * x

RECURSIVE SumOver(_, _)
SumOver(S, f) ==
    IF S = {} THEN 0
    ELSE LET x == CHOOSE x \in S : TRUE IN f[x] + SumOver(S \ {x}, f)

\* SimpleChoice.get_prob_use(self, ppl): rhs per agent of ppl, over the
\* coefficients that are in the table
Simple_get_prob_use(arg) ==
    IF arg.given
    THEN Raised("get_prob_use", "SimpleChoice", arg, "TypeError", {})
    ELSE IF "intercept" \notin DOMAIN coefs
    THEN Raised("get_prob_use", "SimpleChoice", arg, "AttributeError", {})
    ELSE Returned("get_prob_use", "SimpleChoice", arg, arange,
                  [k \in 0..NAgents-1 |->
                     coefs["intercept"] +
                     SumOver(DOMAIN coefs \ {"intercept"},
                             [vname \in DOMAIN coefs |->
                                Term(coefs[vname], ppl[vname][k])])],
                  [k \in 0..NAgents-1 |-> TRUE], {}, <<>>, <<>>)

\* EmpoweredChoice.get_prob_use(self, ppl, inds=None): rhs per entry of inds
\* p.intercept and p.age are read before ppl.age[inds], the other
\* coefficients after it
Empowered_get_prob_use(arg) ==
    LET inds == Resolved(arg)
    IN IF \E vname \in {"intercept", "age"} : vname \notin DOMAIN coefs
       THEN Raised("get_prob_use", "EmpoweredChoice", arg, "AttributeError", {})
       ELSE IF arg.given /\ ~InBounds(arg.v)
       THEN Raised("get_prob_use", "EmpoweredChoice", arg, "IndexError", {})
       ELSE IF \E vname \in CoefNames : vname \notin DOMAIN coefs
       THEN Raised("get_prob_use", "EmpoweredChoice", arg, "AttributeError", {})
       ELSE Returned("get_prob_use", "EmpoweredChoice", arg, inds,
                     [k \in DOMAIN inds |->
                        coefs["intercept"] +
                        SumOver(CoefNames \ {"intercept"},
                                [vname \in CoefNames |->
                                   Term(coefs[vname], Attr(vname)[inds[k]])])],
                     [k \in DOMAIN inds |-> TRUE], {}, <<>>, <<>>)

\* the logits a uniform draw of np.random.random can stand for
RandomLogits == {-1, 0, 1}

\* RandomChoice.get_prob_use(self, ppl)
Random_get_prob_use(arg, u) ==
    IF arg.given
    THEN Raised("get_prob_use", "RandomChoice", arg, "TypeError", {})
    ELSE Returned("get_prob_use", "RandomChoice", arg, arange, u,
                  [k \in 0..NAgents-1 |-> TRUE], {}, <<>>, <<>>)

get_prob_use(cls, arg, u) ==
    CASE cls = "RandomChoice" -> Random_get_prob_use(arg, u)
      [] cls = "SimpleChoice" -> Simple_get_prob_use(arg)
      [] OTHER -> Empowered_get_prob_use(arg)

Strategies == {"RandomChoice", "SimpleChoice", "EmpoweredChoice"}

GetProbUse ==
    \E cls \in Strategies, arg \in Args :
      \E u \in IF cls = "RandomChoice" /\ ~arg.given
               THEN [0..NAgents-1 -> RandomLogits]
               ELSE {<<>>} :
        /\ ret.op = ""
        /\ ret' = get_prob_use(cls, arg, u)
        /\ UNCHANGED <<ppl, mcp, coefs, dur_method, use_dist, elsewhere>>

\* ContraceptiveChoice.get_contra_users(self, ppl), inherited by every
\* strategy: binomial_arr(self.get_prob_use(ppl)); b is the binomial draw
get_contra_users(cls, arg, u, b) ==
    IF arg.given
    THEN Raised("get_contra_users", cls, arg, "TypeError", {})
    ELSE LET prob_use == get_prob_use(cls, None, u)
         IN IF prob_use.status = "raised"
            THEN Raised("get_contra_users", cls, arg, prob_use.err, {})
            ELSE Returned("get_contra_users", cls, arg, arange, b,
                          [k \in 0..NAgents-1 |-> TRUE], {}, <<>>, <<>>)

GetContraUsers ==
    \E cls \in Strategies, arg \in Args :
      \E u \in IF cls = "RandomChoice" /\ ~arg.given
               THEN [0..NAgents-1 -> RandomLogits]
               ELSE {<<>>},
         b \in IF arg.given THEN {<<>>} ELSE [0..NAgents-1 -> BOOLEAN] :
        /\ ret.op = ""
        /\ ret' = get_contra_users(cls, arg, u, b)
        /\ UNCHANGED <<ppl, mcp, coefs, dur_method, use_dist, elsewhere>>

---------------------------------------------------------------------------
(* EmpoweredChoice.process_method_pars *)

\* method.csv_name: the label of a catalog method in the source table
csv_name(mname) ==
    CASE mname = "none" -> "None"
      [] mname = "pill" -> "Pill"
      [] mname = "iud" -> "IUDs"
      [] OTHER -> "Other traditional"

\* df.age_grp, df.parity, df.method: one column of the table
Column(rows, c) == [i \in 1..Len(rows) |-> rows[i][c]]

\* Series.unique(): the values in order of first appearance
RECURSIVE unique(_)
unique(col) ==
    IF col = <<>> THEN <<>>
    ELSE LET u == unique(SubSeq(col, 1, Len(col) - 1))
             last == col[Len(col)]
         IN IF \E i \in 1..Len(u) : u[i] = last THEN u ELSE Append(u, last)

\* df.loc[(df.age_grp == akey) & (df.parity == pkey) &
\*        (df.method == mlabel)].percent.values
values(rows, akey, pkey, mlabel) ==
    LET hit(row) == row.age_grp = akey /\ row.parity = pkey
                    /\ row.method = mlabel
    IN Column(SelectSeq(rows, hit), "percent")

\* .values[0]: the first matching row
val(rows, akey, pkey, mlabel) == values(rows, akey, pkey, mlabel)[1]

\* [m.name for m in self.methods.values() if m.csv_name == mlabel]
mnames(mlabel) ==
    LET hit(mname) == csv_name(mname) = mlabel IN SelectSeq(methods, hit)

\* d[k] = v on an insertion-ordered dict
Put(cell, k, v) ==
    IF \E i \in 1..Len(cell) : cell[i].name = k
    THEN [i \in 1..Len(cell) |->
            IF cell[i].name = k THEN [name |-> k, share |-> v] ELSE cell[i]]
    ELSE Append(cell, [name |-> k, share |-> v])

\* abstinence_val set once, from the cell of the first row, and not again
\* in the following cells
abstinence_val_stale(rows, akey, pkey) ==
    val(rows, rows[1].age_grp, rows[1].parity, "Abstinence")

\* abstinence_val = sc.dcp(val), as it stands when the loop over the
\* labels of cell (akey, pkey) has ended: the labels are the same in every
\* cell, so it was set in this cell
abstinence_val(rows, akey, pkey) == val(rows, akey, pkey, "Abstinence")

\* the loop over df.method.unique() for one cell
RECURSIVE method_loop(_, _, _, _)
method_loop(rows, akey, pkey, mlabels) ==
    IF mlabels = <<>> THEN <<>>
    ELSE LET mlabel == mlabels[Len(mlabels)]
             before == method_loop(rows, akey, pkey,
                                   SubSeq(mlabels, 1, Len(mlabels) - 1))
         IN IF mlabel # "Abstinence"
            THEN Put(before, mnames(mlabel)[1], val(rows, akey, pkey, mlabel))
            ELSE before

\* dd[akey][pkey]['othtrad'] += abstinence_val
folded(rows, akey, pkey, mlabels) ==
    LET cell == method_loop(rows, akey, pkey, mlabels)
    IN [i \in 1..Len(cell) |->
          IF cell[i].name = "othtrad"
          THEN [name |-> "othtrad",
                share |-> cell[i].share + abstinence_val(rows, akey, pkey)]
          ELSE cell[i]]

\* process_method_pars(self, method_choice_file) on the rows pd.read_csv
\* gives: the nested mapping dd, or the error the loops raise first
process_method_pars(rows) ==
    LET akeys == unique(Column(rows, "age_grp"))
        pkeys == unique(Column(rows, "parity"))
        mlabels == unique(Column(rows, "method"))
        \* .values[0] of no row, or [...][0] of no catalog method
        short(akey, pkey) ==
            \E i \in 1..Len(mlabels) :
                \/ values(rows, akey, pkey, mlabels[i]) = <<>>
                \/ mlabels[i] # "Abstinence" /\ mnames(mlabels[i]) = <<>>
        has(mlabel) == \E i \in 1..Len(mlabels) : mlabels[i] = mlabel
        err == IF rows = <<>> THEN ""
               ELSE IF short(akeys[1], pkeys[1]) THEN "IndexError"
               ELSE IF ~has(csv_name("othtrad")) THEN "KeyError"
               ELSE IF ~has("Abstinence") THEN "UnboundLocalError"
               ELSE IF \E a \in 1..Len(akeys), b \in 1..Len(pkeys) :
                          short(akeys[a], pkeys[b])
               THEN "IndexError"
               ELSE ""
    IN IF err # "" THEN [status |-> "raised", err |-> err, dd |-> <<>>]
       ELSE [status |-> "ok", err |-> "",
             dd |-> [akey \in {akeys[a] : a \in 1..Len(akeys)} |->
                       [pkey \in {pkeys[b] : b \in 1..Len(pkeys)} |->
                          folded(rows, akey, pkey, mlabels)]]]

\* EmpoweredChoice.__init__: self.method_choice_pars =
\* self.process_method_pars(method_choice_file)
ProcessMethodPars ==
    LET out == process_method_pars(df)
    IN /\ df # <<>>
       /\ load' = [status |-> out.status, err |-> out.err]
       /\ mcp' = IF out.status = "ok" THEN out.dd ELSE mcp
       /\ UNCHANGED <<ppl, coefs, dur_method, use_dist, ret, prev, df,
                      analysis, scenarios>>

\* the source file is written again with two of its rows exchanged
Rewrite ==
    \E i, j \in 1..Len(df) :
      /\ i < j
      /\ df' = [df EXCEPT ![i] = df[j], ![j] = df[i]]
      /\ UNCHANGED <<ppl, mcp, coefs, dur_method, use_dist, ret, prev, load,
                     analysis, scenarios>>

---------------------------------------------------------------------------
(* Analyzers (fpsim/analyzers.py) *)

AnalyzerClasses == {"Analyzer", "education_recorder"}

\* Analyzer.__init__ and education_recorder.__init__.  A snapshot is kept
\* as its key, int(str(sim.i)), and the number n of females it holds; row
\* ti of a trajectory as the number of entries written to it.
Constructed(cls) ==
    [cls |-> cls, initialized |-> FALSE, finalized |-> FALSE,
     snapshots |-> <<>>, max_pop_size |-> 0, time |-> <<>>,
     trajectories |-> <<>>]

\* how a call on the analyzer ended: a the analyzer before the call, wins
\* the calls of finalize that returned since the last initialize
Ended(op, status, err, a, wins) ==
    [op |-> op, status |-> status, err |-> err, before |-> a, wins |-> wins]

NoAnalyzerCall == Ended("", "", "", Constructed("Analyzer"), 0)

\* Analyzer.initialize(self, sim=None), inherited by education_recorder
initialize(a) == [a EXCEPT !.initialized = TRUE, !.finalized = FALSE]

AnalyzerInitialize ==
    /\ an.cls \in AnalyzerClasses \cup {"snapshot"}
    /\ an' = initialize(an)
    /\ an_ret' = Ended("initialize", "ok", "", an, 0)
    /\ UNCHANGED <<choice, sim_i, people, seen, scenarios>>

\* finalize that does not look at self.finalized
finalized_unchecked(a) == FALSE

\* if self.finalized: raise RuntimeError('Analyzer already finalized')
finalized_already(a) == a.finalized

\* self.snapshots[t] for an integer t: sc.odict takes it as a position
Positional(snapshots, t) ==
    IF t + 1 \in 1..Len(snapshots) THEN {snapshots[t + 1]} ELSE {}

\* Analyzer.finalize(self, sim=None) and education_recorder.finalize: the
\* error raised, if any, and the analyzer after the call
finalize(a) ==
    LET time == [i \in 1..Len(a.snapshots) |-> a.snapshots[i].key]
        done == [a EXCEPT !.finalized = TRUE]
        \* rows filled before a position is out of range
        rows == CHOOSE n \in 0..Len(time) :
                   /\ \A ti \in 1..n : Positional(a.snapshots, time[ti]) # {}
                   /\ n < Len(time) =>
                        Positional(a.snapshots, time[n + 1]) = {}
        filled == [ti \in 1..rows |->
                     (CHOOSE x \in Positional(a.snapshots, time[ti]) : TRUE).n]
    IN IF finalized_already(a)
       THEN [err |-> "RuntimeError", an |-> a]
       ELSE IF a.cls # "education_recorder"
       THEN [err |-> "", an |-> done]
       ELSE [err |-> IF rows < Len(time) THEN "IndexError" ELSE "",
             an |-> [done EXCEPT !.time = time, !.trajectories = filled]]

AnalyzerFinalize ==
    LET out == finalize(an)
    IN /\ an' = out.an
       /\ an_ret' = Ended("finalize", IF out.err = "" THEN "ok" ELSE "raised",
                          out.err, an,
                          IF out.err = "" THEN Min({2, an_ret.wins + 1})
                          ELSE an_ret.wins)
       /\ UNCHANGED <<choice, sim_i, people, seen, scenarios>>

\* one step of the simulation with an education_recorder attached:
\* education_recorder.apply(sim) stores the n females of this tick under
\* str(sim.i), then the simulation moves to the next tick
RecorderApply ==
    \E n \in 0..NAgents :
      LET snap == [key |-> sim_i, n |-> n]
          held == {i \in 1..Len(an.snapshots) : an.snapshots[i].key = sim_i}
      IN /\ an.cls = "education_recorder"
         /\ sim_i <= MaxTi
         /\ an' = [an EXCEPT
                     !.snapshots =
                        IF held = {} THEN Append(an.snapshots, snap)
                        ELSE [i \in 1..Len(an.snapshots) |->
                                IF i \in held THEN snap ELSE an.snapshots[i]],
                     !.max_pop_size = IF n > @ THEN n ELSE @]
         /\ an_ret' = Ended("apply", "ok", "", an, an_ret.wins)
         /\ sim_i' = sim_i + 1
         /\ UNCHANGED <<choice, people, seen, scenarios>>

---------------------------------------------------------------------------
(* Inputs *)

\* one table: the same cell at every (age group, parity)
Uniform(cell) == [key \in AgeKeys |-> [parity \in 0..NParity-1 |-> cell]]

\* a table whose cells differ by age group
Mixed == [key \in AgeKeys |->
            [parity \in 0..NParity-1 |->
               IF key = "<18" THEN CellABC ELSE CellTwo]]

Tables == {Mixed, Uniform(CellOnly), Uniform(CellNone), Uniform(CellNeg)}

\* agents: age, parity, current method index, next-review tick
Profiles ==
    {[age |-> 17, parity |-> 6, method |-> 1, ti_update |-> 0],
     [age |-> 30, parity |-> 0, method |-> 2, ti_update |-> 2],
     [age |-> 30, parity |-> 7, method |-> 3, ti_update |-> 1],
     [age |-> 17, parity |-> 0, method |-> 0, ti_update |-> 2],
     [age |-> 30, parity |-> 6, method |-> 3, ti_update |-> 0]}

\* ppl.pars['timestep'], months per tick
Timesteps == {1, 12}

\* the population view whose agents are the profiles a, at tick ti
People(a, ti, timestep) ==
    [ti |-> ti, timestep |-> timestep,
     age |-> [k \in 0..NAgents-1 |-> a[k].age],
     parity |-> [k \in 0..NAgents-1 |-> a[k].parity],
     method |-> [k \in 0..NAgents-1 |-> a[k].method],
     ti_update |-> [k \in 0..NAgents-1 |-> a[k].ti_update],
     on_contra |-> [k \in 0..NAgents-1 |-> IF a[k].method = 0 THEN 0 ELSE 1],
     contraception |-> [k \in 0..NAgents-1 |-> IF a[k].method = 0 THEN 0 ELSE 1],
     urban |-> [k \in 0..NAgents-1 |-> k % 2],
     edu_attainment |-> [k \in 0..NAgents-1 |-> 1],
     paid_employment |-> [k \in 0..NAgents-1 |-> 1],
     decision_wages |-> [k \in 0..NAgents-1 |-> 0],
     decision_health |-> [k \in 0..NAgents-1 |-> 1],
     sexual_autonomy |-> [k \in 0..NAgents-1 |-> 1]]

\* coefficient tables: complete, and with one name absent
FullCoefs == [vname \in CoefNames |->
                CASE vname = "intercept" -> -1
                  [] vname = "age" -> 1
                  [] vname = "parity" -> 2
                  [] vname = "sexual_autonomy" -> 3
                  [] OTHER -> 0]

Without(vname) == [v \in CoefNames \ {vname} |-> FullCoefs[v]]

CoefTables == {FullCoefs, Without("intercept"), Without("age"),
               Without("sexual_autonomy"), [vname \in CoefNames |-> 0]}

\* before any call
NoCall == [op |-> "", cls |-> "", status |-> "", err |-> "", arg |-> None,
           inds |-> <<>>, value |-> <<>>, assigned |-> <<>>, draws |-> {},
           loc |-> <<>>, dur |-> <<>>]

\* ContraceptiveChoice.dur_method values (1/100 year); 100 is the default
DurMethods == {0, 100}

\* the catalog as fpd.method_list defines it
method_list == [mname \in MethodNames |-> use_dist_par1(mname)]

\* no population is read by an analyzer
NoPeople == people = <<>> /\ seen = <<>>

\* no simulation is built with an update_methods intervention
NoScenarios == sims = <<>> /\ scens = <<>>

\* process_method_pars has not been called
NoLoad == [status |-> "", err |-> ""]

\* no source table, no earlier run, an analyzer that is never called: the
\* table is handed over parsed
Parsed ==
    /\ df = <<>> /\ load = NoLoad /\ prev = NoCall
    /\ an = Constructed("Analyzer") /\ an_ret = NoAnalyzerCall /\ sim_i = 0
    /\ NoPeople /\ NoScenarios

\* one row of the method-choice source table
Row(akey, pkey, mlabel, percent) ==
    [age_grp |-> akey, parity |-> pkey, method |-> mlabel, percent |-> percent]

\* one age group, two parities
SourceParities ==
    <<Row("<18", 0, "Pill", 5000), Row("<18", 0, "Other traditional", 3000),
      Row("<18", 0, "Abstinence", 2000), Row("<18", 1, "Pill", 4000),
      Row("<18", 1, "Other traditional", 3500), Row("<18", 1, "Abstinence", 2500)>>

\* two age groups, one parity
SourceAges ==
    <<Row("<18", 0, "Abstinence", 2000), Row("<18", 0, "Pill", 5000),
      Row("<18", 0, "Other traditional", 3000), Row("18+", 0, "Abstinence", 1000),
      Row("18+", 0, "Pill", 6000), Row("18+", 0, "Other traditional", 3000)>>

\* one cell with two rows for the same method
SourceTwice ==
    <<Row("<18", 0, "Pill", 5000), Row("<18", 0, "Other traditional", 3000),
      Row("<18", 0, "Abstinence", 2000), Row("<18", 0, "Other traditional", 1000)>>

\* no Abstinence row
SourceNoAbstinence ==
    <<Row("<18", 0, "Pill", 5000), Row("<18", 0, "Other traditional", 5000)>>

\* no other-traditional row
SourceNoOthtrad ==
    <<Row("<18", 0, "Pill", 8000), Row("<18", 0, "Abstinence", 2000)>>

\* a cell without its Abstinence row
SourceHole ==
    <<Row("<18", 0, "Pill", 5000), Row("<18", 0, "Other traditional", 3000),
      Row("<18", 0, "Abstinence", 2000), Row("<18", 1, "Pill", 4000),
      Row("<18", 1, "Other traditional", 6000)>>

\* a label no catalog method carries
SourceUnknown ==
    <<Row("<18", 0, "Implants", 5000), Row("<18", 0, "Other traditional", 3000),
      Row("<18", 0, "Abstinence", 2000)>>

Sources == {SourceParities, SourceAges, SourceTwice, SourceNoAbstinence,
            SourceNoOthtrad, SourceHole, SourceUnknown}

---------------------------------------------------------------------------
(* Between two ticks *)

\* the shares and location parameters an intervention writes
NewShares == {2000}
NewPar1 == {200}

\* the caller has used the returned vector and the simulation moves to
\* the next tick
NextTick ==
    /\ ret.op # ""
    /\ ppl.ti < MaxTi
    /\ ppl' = [ppl EXCEPT !.ti = ppl.ti + 1]
    /\ ret' = NoCall
    /\ UNCHANGED <<mcp, coefs, dur_method, use_dist, elsewhere>>

\* an intervention overwrites the share of the first method of a cell of
\* method_choice_pars
ChangeShare ==
    \E key \in AgeKeys, v \in NewShares :
      /\ ret.op = ""
      /\ mcp[key][0] # <<>>
      /\ mcp' = [mcp EXCEPT ![key][0][1].share = v]
      /\ UNCHANGED <<ppl, coefs, dur_method, use_dist, ret, elsewhere>>

\* an intervention overwrites par1 of a method's use_dist
ChangeUseDist ==
    \E mname \in {"pill"}, v \in NewPar1 :
      /\ ret.op = ""
      /\ use_dist' = [use_dist EXCEPT ![mname] = v]
      /\ UNCHANGED <<ppl, mcp, coefs, dur_method, ret, elsewhere>>

---------------------------------------------------------------------------
(* A second run from the same seed *)

\* choose_method is run again on the same population and parameters with
\* the random numbers of the run that gave ret; what np.empty leaves in
\* the entries that are not written is no part of the random stream
RerunChooseMethod ==
    LET inds == Resolved(ret.arg)
    IN /\ ret.op = "choose_method" /\ ret.cls = "EmpoweredChoice"
       /\ prev.op # "choose_method"
       /\ \E J \in ChooseJ(inds) :
            \E pick \in ChoosePick(inds, J),
               g0 \in ChooseLeftover(inds), g \in ChooseLeftover(inds) :
              /\ ret = choose_method(ret.arg, J, pick, g0)
              /\ ret' = choose_method(ret.arg, J, pick, g)
              /\ prev' = ret
       /\ UNCHANGED <<ppl, mcp, coefs, dur_method, use_dist, df, load,
                      analysis, scenarios>>

\* set_dur_method likewise
RerunSetDurMethod ==
    LET method_used == IF ret.arg.given THEN ret.arg.v ELSE ppl.method
        users == DurUsers(method_used) \cap (0..NAgents-1)
        left == Prod([k \in 0..NAgents-1 |->
                        IF k \in users THEN {0} ELSE Leftover])
    IN /\ ret.op = "set_dur_method" /\ ret.cls = "EmpoweredChoice"
       /\ prev.op # "set_dur_method"
       /\ \E d \in Prod([k \in 0..NAgents-1 |->
                           IF k \in users THEN sample(DurLoc(method_used, k))
                           ELSE {0}]) :
            \E r \in Prod([k \in 0..NAgents-1 |->
                             IF k \in users
                             THEN randround(d[k] * mpy, 100 * ppl.timestep)
                             ELSE {0}]),
               g0 \in left, g \in left :
              /\ ret = Empowered_set_dur_method(ret.arg, ret.inds, d, r, g0)
              /\ ret' = Empowered_set_dur_method(ret.arg, ret.inds, d, r, g)
              /\ prev' = ret
       /\ use_dist' = use_dist_after(method_used)
       /\ UNCHANGED <<ppl, mcp, coefs, dur_method, df, load, analysis,
                      scenarios>>

---------------------------------------------------------------------------
(* The population the analyzers read, and the step of the simulation *)

\* one agent of sim.people: sex 0 is female (people.is_female)
Agent(age, sex, partnered, sexual_autonomy) ==
    [alive |-> TRUE, age |-> age, sex |-> sex, partnered |-> partnered,
     sexual_autonomy |-> sexual_autonomy]

AgentProfiles ==
    {Agent(10, 0, 0, 2), Agent(25, 0, 1, 4), Agent(45, 0, 1, 6),
     Agent(25, 1, 0, 8)}

Populations == [0..NAgents-1 -> AgentProfiles]

\* sim.people one tick later: every living agent is a year older and at
\* most one of them has died
Stepped(p) ==
    {[k \in DOMAIN p |->
        IF ~p[k].alive THEN p[k]
        ELSE [p[k] EXCEPT !.age = @ + 1, !.alive = (k # dead)]] :
       dead \in {-1} \cup {k \in DOMAIN p : p[k].alive}}

\* the simulation moves from tick sim.i to the next
SimStep ==
    /\ seen' = Append(seen, people)
    /\ people' \in Stepped(people)
    /\ sim_i' = sim_i + 1

---------------------------------------------------------------------------
(* snapshot *)

\* str(i) of a tick
str(i) == <<"0", "1", "2", "3", "4", "5", "6", "7", "8", "9">>[i + 1]

\* snapshot.__init__(self, timesteps, *args, die=True)
snapshot(timesteps, args, die) ==
    [cls |-> "snapshot", initialized |-> FALSE, finalized |-> FALSE,
     die |-> die, timesteps |-> timesteps \o args, snapshots |-> <<>>]

\* od[key] = value on an sc.odict kept as a sequence of [key, value]
odict_set(od, key, value) ==
    IF \E n \in 1..Len(od) : od[n].key = key
    THEN [n \in 1..Len(od) |->
            IF od[n].key = key THEN [key |-> key, value |-> value]
            ELSE od[n]]
    ELSE Append(od, [key |-> key, value |-> value])

\* a comparison that also takes the neighbouring tick
isclose_neighbour(a, b) == a - b \in -1..1

\* np.isclose(sim.i, t) for a tick and a listed timestep, both whole
\* numbers far below 1e5: |a - b| <= 1e-8 + 1e-5 * |b|
isclose(a, b) == a = b

\* the loop of snapshot.apply over self.timesteps
RECURSIVE snapshot_loop(_, _, _, _)
snapshot_loop(snapshots, timesteps, i, p) ==
    IF timesteps = <<>> THEN snapshots
    ELSE snapshot_loop(IF isclose(i, Head(timesteps))
                       THEN odict_set(snapshots, str(i), dcp(p))
                       ELSE snapshots,
                       Tail(timesteps), i, p)

\* what a stored snapshot holds now: a copy that shares sim.people
\* follows it
Stored(entry) ==
    IF entry.value.shared THEN people ELSE entry.value.v

\* snapshot.apply(sim) at tick sim.i, then the simulation steps
SnapshotApply ==
    /\ an.cls = "snapshot"
    /\ sim_i <= MaxTi
    /\ an' = [an EXCEPT !.snapshots =
                 snapshot_loop(@, an.timesteps, sim_i, people)]
    /\ an_ret' = Ended("apply", "ok", "", an, an_ret.wins)
    /\ SimStep
    /\ UNCHANGED <<choice, scenarios>>

\* the timestep lists a snapshot analyzer is built with: ticks of the run
\* and one tick after its end
TimestepLists ==
    {<<0>>, <<MaxTi>>, <<0, MaxTi>>, <<MaxTi, MaxTi>>, <<MaxTi + 1>>,
     <<0, MaxTi + 1>>}

Snapshots ==
    {snapshot(<<Head(ts)>>, Tail(ts), die) :
        ts \in TimestepLists, die \in BOOLEAN}

---------------------------------------------------------------------------
(* timeseries_recorder *)

\* sim.people.keys()
people_keys == <<"alive", "age", "sex", "partnered", "sexual_autonomy">>

\* sim.people[key] as an array of numbers, True counting as 1
Array(p, key) ==
    [k \in DOMAIN p |->
       CASE key = "alive" -> IF p[k].alive THEN 1 ELSE 0
         [] key = "age" -> p[k].age
         [] key = "sex" -> p[k].sex
         [] key = "partnered" -> p[k].partnered
         [] OTHER -> p[k].sexual_autonomy]

\* the entries x[k], k in the set of positions K, in the order of k
RECURSIVE Take(_, _)
Take(x, K) ==
    IF K = {} THEN <<>>
    ELSE <<x[Min(K)]>> \o Take(x, K \ {Min(K)})

\* np.mean(x) as the fraction sum / n; 0 / 0 is nan
mean(x) == [sum |-> SumSeq(x), n |-> Len(x)]

\* sim.t in years and sim.y at tick i, the timestep being one year
start_year == 2000

sim_t(i) == i

sim_y(i) == start_year + i

\* timeseries_recorder.__init__(self, to_record=None)
timeseries_recorder(to_record) ==
    [cls |-> "timeseries_recorder", initialized |-> FALSE,
     finalized |-> FALSE, i |-> <<>>, t |-> <<>>, y |-> <<>>, data |-> <<>>,
     keys |-> to_record, to_record |-> <<>>]

\* self.data[key], key being present
Item(od, key) == (CHOOSE n \in 1..Len(od) : od[n].key = key)

\* for key in self.keys: self.data[key] = []
RECURSIVE data_reset(_, _)
data_reset(data, keys) ==
    IF keys = <<>> THEN data
    ELSE data_reset(odict_set(data, Head(keys), <<>>), Tail(keys))

\* timeseries_recorder.initialize(self, sim): every key is an array of
\* sim.people and is appended to self.to_record
timeseries_initialize(a) ==
    LET keys == IF a.keys.given THEN a.keys.v ELSE people_keys
    IN [initialize(a) EXCEPT !.keys = Some(keys),
                             !.to_record = @ \o keys,
                             !.data = data_reset(@, keys)]

\* at most as many calls as the run has ticks are followed
TimeseriesInitialize ==
    /\ an.cls = "timeseries_recorder"
    /\ Len(an.to_record) <
          (MaxTi + 1) * Len(IF an.keys.given THEN an.keys.v ELSE people_keys)
    /\ an' = timeseries_initialize(an)
    /\ an_ret' = Ended("initialize", "ok", "", an, 0)
    /\ UNCHANGED <<choice, sim_i, people, seen, scenarios>>

\* for k in self.to_record: self.data[k].append(np.mean(sim.people[k]))
RECURSIVE data_append(_, _, _)
data_append(data, to_record, p) ==
    IF to_record = <<>> THEN data
    ELSE LET k == Head(to_record)
             m == mean(Take(Array(p, k), DOMAIN p))
         IN data_append(odict_set(data, k,
                                  Append(data[Item(data, k)].value, m)),
                        Tail(to_record), p)

\* timeseries_recorder.apply(self, sim) at tick sim.i, then the simulation
\* steps
TimeseriesApply ==
    /\ an.cls = "timeseries_recorder"
    /\ sim_i <= MaxTi
    /\ an' = [an EXCEPT !.i = Append(@, sim_i),
                        !.t = Append(@, sim_t(sim_i)),
                        !.y = Append(@, sim_y(sim_i)),
                        !.data = data_append(@, an.to_record, people)]
    /\ an_ret' = Ended("apply", "ok", "", an, an_ret.wins)
    /\ SimStep
    /\ UNCHANGED <<choice, scenarios>>

\* the recorders built: every key, or one or two of them
Recorders ==
    {timeseries_recorder(to_record) :
        to_record \in {None, Some(<<"age">>), Some(<<"age", "alive">>)}}

---------------------------------------------------------------------------
(* empowerment_recorder *)

\* the keys recorded: a boolean attribute (as are urban and
\* paid_employment), a float attribute (as is control_over_wages), and age
empowerment_keys == <<"partnered", "sexual_autonomy", "age">>

\* sim.pars['max_age'] and sim.npts
max_age == 50

npts == MaxTi + 1

\* np.arange(lo, hi)
np_arange(lo, hi) == [n \in 1..(hi - lo) |-> lo + n - 1]

\* np.nan, and a statistic num / den
nan == [sum |-> 0, n |-> 0]

\* empowerment_recorder.__init__(self, bins=None)
empowerment_recorder(bins) ==
    [cls |-> "empowerment_recorder", initialized |-> FALSE,
     finalized |-> FALSE, bins |-> bins, data |-> <<>>,
     keys |-> empowerment_keys, nbins |-> None]

\* for key in self.keys: self.data[key] = np.full((nbins, npts), np.nan)
RECURSIVE data_full(_, _, _)
data_full(data, keys, nbins) ==
    IF keys = <<>> THEN data
    ELSE data_full(odict_set(data, Head(keys),
                             [b \in 0..nbins-1 |-> [i \in 0..npts-1 |-> nan]]),
                   Tail(keys), nbins)

\* empowerment_recorder.initialize(self, sim)
empowerment_initialize(a) ==
    LET bins == IF a.bins.given THEN a.bins.v ELSE np_arange(0, max_age + 2)
        nbins == Len(bins) - 1
    IN [initialize(a) EXCEPT !.bins = Some(bins), !.nbins = Some(nbins),
                             !.data = data_full(@, a.keys, nbins)]

EmpowermentInitialize ==
    /\ an.cls = "empowerment_recorder"
    /\ an' = empowerment_initialize(an)
    /\ an_ret' = Ended("initialize", "ok", "", an, 0)
    /\ UNCHANGED <<choice, sim_i, people, seen, scenarios>>

\* sc.findinds(sim.people.alive, sim.people.is_female)
living_females(p) == {k \in DOMAIN p : p[k].alive /\ p[k].sex = 0}

\* np.digitize(x, bins) for increasing bins: the number of edges <= x
digitize(x, bins) == Cardinality({n \in 1..Len(bins) : bins[n] <= x})

\* np.histogram(ages, bins)[0][b]: the last bin takes its right edge
histogram(p, K, bins, b) ==
    Cardinality({k \in K :
                   /\ bins[b + 1] <= p[k].age
                   /\ \/ p[k].age < bins[b + 2]
                      \/ b + 2 = Len(bins) /\ p[k].age = bins[b + 2]})

\* the sequence x in increasing order
RECURSIVE Sorted(_)
Sorted(x) ==
    IF x = <<>> THEN <<>>
    ELSE LET n == CHOOSE n \in 1..Len(x) : \A m \in 1..Len(x) : x[n] <= x[m]
         IN <<x[n]>> \o Sorted([m \in 1..Len(x)-1 |->
                                   IF m < n THEN x[m] ELSE x[m + 1]])

\* np.median(x): the middle value, or the mean of the two middle values
median(x) ==
    LET y == Sorted(x)
        h == Len(x) \div 2
    IN IF x = <<>> THEN nan
       ELSE IF Len(x) % 2 = 1 THEN [sum |-> y[h + 1], n |-> 1]
       ELSE [sum |-> y[h] + y[h + 1], n |-> 2]

\* vals of one key in empowerment_recorder.apply: entry b of the list
\* built over group_idx in range(1, len(self.bins)) is that of
\* group_idx = b + 1
vals(a, p, key) ==
    LET bins == a.bins.v
        K == living_females(p)
        age_group == [k \in K |-> digitize(p[k].age, bins) - 1]
        of(group_idx) ==
            Take(Array(p, key), {k \in K : age_group[k] = group_idx})
        temp == [b \in 0..a.nbins.v-1 |-> histogram(p, K, bins, b)]
        temp_sum == SumSeq([n \in 1..a.nbins.v |-> temp[n - 1]])
    IN [b \in 0..a.nbins.v-1 |->
          IF key = "age"
          THEN IF temp_sum = 0 THEN nan
               ELSE [sum |-> temp[b], n |-> temp_sum]
          ELSE IF key = "partnered" THEN mean(of(b + 1))
          ELSE median(of(b + 1))]

\* self.data[key][:, sim.i] = vals, for every key
RECURSIVE data_columns(_, _, _, _, _)
data_columns(data, keys, a, p, i) ==
    IF keys = <<>> THEN data
    ELSE LET key == Head(keys)
             column == vals(a, p, key)
             matrix == data[Item(data, key)].value
         IN data_columns(
              odict_set(data, key,
                        [b \in DOMAIN matrix |->
                           [matrix[b] EXCEPT ![i] = column[b]]]),
              Tail(keys), a, p, i)

\* empowerment_recorder.apply(self, sim) at tick sim.i, then the
\* simulation steps.  Before initialize, self.bins is None or self.data
\* has no key, and the call raises an exception before it writes.
EmpowermentApply ==
    /\ an.cls = "empowerment_recorder"
    /\ sim_i <= MaxTi
    /\ IF an.data = <<>>
       THEN /\ an_ret' = Ended("apply", "raised", "Exception", an,
                               an_ret.wins)
            /\ UNCHANGED <<an, sim_i, people, seen>>
       ELSE /\ an' = [an EXCEPT !.data =
                        data_columns(@, an.keys, an, people, sim_i)]
            /\ an_ret' = Ended("apply", "ok", "", an, an_ret.wins)
            /\ SimStep
    /\ UNCHANGED <<choice, scenarios>>

\* the recorders built: bins of twenty years, or the default bins
EmpowermentRecorders ==
    {empowerment_recorder(bins) : bins \in {None, Some(<<0, 20, 40>>)}}

---------------------------------------------------------------------------
(* update_methods (fp_2022jan_gr/efficacy_scens.py) *)

\* sim.pars['methods']['map'] and the age keys of the switching matrices,
\* cut down to two methods and two age groups
methods_map == [key \in {"None", "Pill"} |-> IF key = "None" THEN 0 ELSE 1]

age_keys == <<"<18", "18-20">>

\* key2ind(sim, key): the positions a method key stands for; None and
\* 'all' stand for slice(None)
key2ind(key) ==
    IF key = "all" THEN {methods_map[k] : k \in DOMAIN methods_map}
    ELSE {methods_map[key]}

\* the parameters of a sim as make_pars gives them: efficacy per method
\* and, per age key, matrix[source][dest]
make_pars ==
    [method_efficacy |-> [m \in 0..1 |-> 5 + m],
     probs_matrix |-> [k \in {age_keys[n] : n \in 1..Len(age_keys)} |->
                         [source \in 0..1 |-> [dest \in 0..1 |-> 3]]]]

\* update_methods.__init__(self, year, scen): scen is the position of the
\* scenario object among the scenario objects
update_methods(year, scen) == [year |-> year, scen |-> scen]

\* make_sim with interventions: sim.y is start_year and sim has no
\* attribute 'modified'
make_sim(interventions) ==
    [y |-> start_year, modified |-> FALSE, pars |-> make_pars,
     interventions |-> interventions]

\* a sim on which the attribute is never found
hasattr_never(sim) == FALSE

\* hasattr(sim, 'modified')
hasattr_modified(sim) == sim.modified

\* for k, v in self.scen.eff.items(): sim.pars['method_efficacy'][ind] = v
RECURSIVE eff_loop(_, _)
eff_loop(method_efficacy, items) ==
    IF items = <<>> THEN method_efficacy
    ELSE eff_loop([m \in DOMAIN method_efficacy |->
                     IF m \in key2ind(Head(items).k) THEN Head(items).v
                     ELSE method_efficacy[m]],
                  Tail(items))

\* a number that a dict holds no key for: dict.pop(key, None) gives None
Missing == [given |-> FALSE, v |-> 0]

\* entry.get in place of entry.pop: the entry is left as it is
read_only(entry) == entry

\* entry.pop('factor', None), entry.pop('value', None) and
\* entry.pop('keys', None): the entry they leave
popped(entry) ==
    [entry EXCEPT !.factor = Missing, !.value = Missing, !.keys = None]

\* for k in keys: matrix[source, dest] *= factor, or = value
RECURSIVE keys_loop(_, _, _)
keys_loop(probs_matrix, keys, entry) ==
    IF keys = <<>> THEN probs_matrix
    ELSE LET k == Head(keys)
             matrix == probs_matrix[k]
             changed ==
                 [source \in DOMAIN matrix |->
                    [dest \in DOMAIN matrix[source] |->
                       IF source \in key2ind(entry.source)
                          /\ dest \in key2ind(entry.dest)
                       THEN IF entry.factor.given
                            THEN matrix[source][dest] * entry.factor.v
                            ELSE IF entry.value.given THEN entry.value.v
                            ELSE matrix[source][dest]
                       ELSE matrix[source][dest]]]
         IN keys_loop([probs_matrix EXCEPT ![k] = changed], Tail(keys), entry)

\* for entry in self.scen.probs
RECURSIVE probs_loop(_, _)
probs_loop(probs_matrix, probs) ==
    IF probs = <<>> THEN probs_matrix
    ELSE LET entry == Head(probs)
             keys == IF entry.keys.given THEN entry.keys.v ELSE age_keys
         IN probs_loop(keys_loop(probs_matrix, keys, entry), Tail(probs))

\* update_methods.apply(self, sim): the sim and the scenario objects
\* after the call
apply(intervention, sim, scenario_objects) ==
    LET scen == scenario_objects[intervention.scen]
    IN IF sim.y >= intervention.year /\ ~hasattr_modified(sim)
       THEN [sim |->
               [sim EXCEPT
                  !.modified = TRUE,
                  !.pars.method_efficacy =
                      IF scen.eff.given THEN eff_loop(@, scen.eff.v) ELSE @,
                  !.pars.probs_matrix =
                      IF scen.probs.given THEN probs_loop(@, scen.probs.v)
                      ELSE @],
             scens |->
               [scenario_objects EXCEPT ![intervention.scen].probs =
                  IF scen.probs.given
                  THEN Some([n \in 1..Len(scen.probs.v) |->
                               popped(scen.probs.v[n])])
                  ELSE @]]
       ELSE [sim |-> sim, scens |-> scenario_objects]

\* one tick of a sim: every intervention is applied in the order of the
\* list
RECURSIVE apply_interventions(_, _, _)
apply_interventions(interventions, sim, scenario_objects) ==
    IF interventions = <<>> THEN [sim |-> sim, scens |-> scenario_objects]
    ELSE LET out == apply(Head(interventions), sim, scenario_objects)
         IN apply_interventions(Tail(interventions), out.sim, out.scens)

\* sim s applies its interventions at sim.y and moves to the next year
\* (a timestep of one year)
SimTick ==
    \E s \in 1..Len(sims) :
      LET out == apply_interventions(sims[s].interventions, sims[s], scens)
      IN /\ sims[s].y <= start_year + MaxTi
         /\ sims' = [sims EXCEPT ![s] = [out.sim EXCEPT !.y = @ + 1]]
         /\ scens' = out.scens
         /\ UNCHANGED <<choice, analysis>>

\* the scenarios: an efficacy change alone; with it a factor on every age
\* key; a value on one age key
EffScen == [eff |-> Some(<<[k |-> "Pill", v |-> 9]>>), probs |-> None]

UptakeScen ==
    [eff |-> Some(<<[k |-> "Pill", v |-> 8]>>),
     probs |-> Some(<<[source |-> "None", dest |-> "Pill",
                       factor |-> Some(2), value |-> Missing, keys |-> None]>>)]

ValueScen ==
    [eff |-> None,
     probs |-> Some(<<[source |-> "all", dest |-> "Pill", factor |-> Missing,
                       value |-> Some(7), keys |-> Some(<<"<18">>)]>>)]

ScenarioObjects ==
    {<<a, b>> : a \in {UptakeScen, ValueScen}, b \in {EffScen, UptakeScen}}

\* the years an intervention starts in
Years == start_year..(start_year + 1)

\* the sims built: one sim with one or two interventions, or two sims
\* built with the same intervention
InterventionLists ==
    {<<update_methods(y1, 1)>> : y1 \in Years}
      \cup {<<update_methods(y1, 1), update_methods(y2, 2)>> :
               y1 \in Years, y2 \in Years}
      \cup {<<update_methods(y2, 2), update_methods(y1, 1)>> :
               y1 \in Years, y2 \in Years}

make_sims ==
    {<<make_sim(ivs)>> : ivs \in InterventionLists}
      \cup {<<make_sim(ivs), make_sim(ivs)>> : ivs \in InterventionLists}

---------------------------------------------------------------------------
(* Specifications *)

\* method choice: populations, ticks and tables vary
InitChoose ==
    /\ \E a \in [0..NAgents-1 -> Profiles], ti \in 0..MaxTi :
         ppl = People(a, ti, 1)
    /\ mcp \in Tables
    /\ coefs = FullCoefs
    /\ dur_method = 100
    /\ use_dist = method_list
    /\ ret = NoCall
    /\ Parsed

NextChoose == EmpoweredChooseMethod \/ RandomChooseMethod

SpecChoose == InitChoose /\ [][NextChoose]_vars

\* duration scheduling: populations, ticks, timestep sizes and configured
\* durations vary
InitDur ==
    /\ \E a \in [0..NAgents-1 -> Profiles], ti \in 0..MaxTi,
          timestep \in Timesteps :
         ppl = People(a, ti, timestep)
    /\ mcp = Mixed
    /\ coefs = FullCoefs
    /\ dur_method \in DurMethods
    /\ use_dist = method_list
    /\ ret = NoCall
    /\ Parsed

NextDur ==
    \/ EmpoweredChooseMethod
    \/ RandomChooseMethod
    \/ EmpoweredSetDurMethod
    \/ BaseSetDurMethod

SpecDur == InitDur /\ [][NextDur]_vars

\* usage prediction: populations and coefficient tables vary
InitUse ==
    /\ \E a \in [0..NAgents-1 -> Profiles] : ppl = People(a, 0, 1)
    /\ mcp = Mixed
    /\ coefs \in CoefTables
    /\ dur_method = 100
    /\ use_dist = method_list
    /\ ret = NoCall
    /\ Parsed

NextUse == GetProbUse \/ GetContraUsers

SpecUse == InitUse /\ [][NextUse]_vars

\* the whole interface on one table
Init ==
    /\ \E a \in [0..NAgents-1 -> Profiles] : ppl = People(a, 0, 1)
    /\ mcp = Mixed
    /\ coefs = FullCoefs
    /\ dur_method = 100
    /\ use_dist = method_list
    /\ ret = NoCall
    /\ Parsed

Next ==
    \/ EmpoweredSetDurMethod
    \/ BaseSetDurMethod
    \/ EmpoweredChooseMethod
    \/ RandomChooseMethod
    \/ GetProbUse
    \/ GetContraUsers

Spec == Init /\ [][Next]_vars

\* table loading: source tables and their row orders vary
InitLoad ==
    /\ ppl = People([k \in 0..NAgents-1 |->
                       [age |-> 17, parity |-> 0, method |-> 1, ti_update |-> 0]],
                    0, 1)
    /\ mcp = <<>>
    /\ coefs = FullCoefs
    /\ dur_method = 100
    /\ use_dist = method_list
    /\ ret = NoCall
    /\ prev = NoCall
    /\ df \in Sources
    /\ load = NoLoad
    /\ an = Constructed("Analyzer") /\ an_ret = NoAnalyzerCall /\ sim_i = 0
    /\ NoPeople /\ NoScenarios

NextLoad == ProcessMethodPars \/ Rewrite

SpecLoad == InitLoad /\ [][NextLoad]_vars

\* several ticks, with interventions between them
InitTicks ==
    /\ \E a \in [0..NAgents-1 -> {q \in Profiles : q.parity = 0}] :
         ppl = People(a, 0, 1)
    /\ mcp = Mixed
    /\ coefs = FullCoefs
    /\ dur_method = 100
    /\ use_dist = method_list
    /\ ret = NoCall
    /\ Parsed

NextTicks ==
    \/ EmpoweredChooseMethod
    \/ EmpoweredSetDurMethod
    \/ NextTick
    \/ ChangeShare
    \/ ChangeUseDist

SpecTicks == InitTicks /\ [][NextTicks]_vars

\* two runs of choose_method and set_dur_method from the same seed
InitSeed ==
    /\ \E a \in [0..NAgents-1 -> Profiles] : ppl = People(a, 0, 1)
    /\ mcp = Mixed
    /\ coefs = FullCoefs
    /\ dur_method = 100
    /\ use_dist = method_list
    /\ ret = NoCall
    /\ Parsed

NextSeed ==
    \/ RerunChooseMethod
    \/ EmpoweredChooseMethod
    \/ RerunSetDurMethod
    \/ EmpoweredSetDurMethod

SpecSeed == InitSeed /\ [][NextSeed]_vars

\* an analyzer over a run: initialize, apply at every tick, finalize, in
\* any order
InitAnalyzer ==
    /\ ppl = People([k \in 0..NAgents-1 |->
                       [age |-> 17, parity |-> 0, method |-> 1, ti_update |-> 0]],
                    0, 1)
    /\ mcp = Mixed
    /\ coefs = FullCoefs
    /\ dur_method = 100
    /\ use_dist = method_list
    /\ ret = NoCall
    /\ prev = NoCall
    /\ df = <<>>
    /\ load = NoLoad
    /\ \E cls \in AnalyzerClasses : an = Constructed(cls)
    /\ an_ret = NoAnalyzerCall
    /\ sim_i = 0
    /\ NoPeople /\ NoScenarios

NextAnalyzer == AnalyzerInitialize \/ AnalyzerFinalize \/ RecorderApply

SpecAnalyzer == InitAnalyzer /\ [][NextAnalyzer]_vars

\* a run with a snapshot analyzer attached
InitSnapshot ==
    /\ ppl = People([k \in 0..NAgents-1 |->
                       [age |-> 17, parity |-> 0, method |-> 1, ti_update |-> 0]],
                    0, 1)
    /\ mcp = Mixed
    /\ coefs = FullCoefs
    /\ dur_method = 100
    /\ use_dist = method_list
    /\ ret = NoCall
    /\ prev = NoCall
    /\ df = <<>>
    /\ load = NoLoad
    /\ an \in Snapshots
    /\ an_ret = NoAnalyzerCall
    /\ sim_i = 0
    /\ people \in Populations
    /\ seen = <<>>
    /\ NoScenarios

NextSnapshot == AnalyzerInitialize \/ SnapshotApply \/ AnalyzerFinalize

SpecSnapshot == InitSnapshot /\ [][NextSnapshot]_vars

\* a run with a timeseries_recorder attached
InitTimeseries ==
    /\ ppl = People([k \in 0..NAgents-1 |->
                       [age |-> 17, parity |-> 0, method |-> 1, ti_update |-> 0]],
                    0, 1)
    /\ mcp = Mixed
    /\ coefs = FullCoefs
    /\ dur_method = 100
    /\ use_dist = method_list
    /\ ret = NoCall
    /\ prev = NoCall
    /\ df = <<>>
    /\ load = NoLoad
    /\ an \in Recorders
    /\ an_ret = NoAnalyzerCall
    /\ sim_i = 0
    /\ people \in Populations
    /\ seen = <<>>
    /\ NoScenarios

NextTimeseries ==
    TimeseriesInitialize \/ TimeseriesApply \/ AnalyzerFinalize

SpecTimeseries == InitTimeseries /\ [][NextTimeseries]_vars

\* a run with an empowerment_recorder attached
InitEmpowerment ==
    /\ ppl = People([k \in 0..NAgents-1 |->
                       [age |-> 17, parity |-> 0, method |-> 1, ti_update |-> 0]],
                    0, 1)
    /\ mcp = Mixed
    /\ coefs = FullCoefs
    /\ dur_method = 100
    /\ use_dist = method_list
    /\ ret = NoCall
    /\ prev = NoCall
    /\ df = <<>>
    /\ load = NoLoad
    /\ an \in EmpowermentRecorders
    /\ an_ret = NoAnalyzerCall
    /\ sim_i = 0
    /\ people \in Populations
    /\ seen = <<>>
    /\ NoScenarios

NextEmpowerment ==
    EmpowermentInitialize \/ EmpowermentApply \/ AnalyzerFinalize

SpecEmpowerment == InitEmpowerment /\ [][NextEmpowerment]_vars

\* sims run with update_methods interventions
InitScenarios ==
    /\ ppl = People([k \in 0..NAgents-1 |->
                       [age |-> 17, parity |-> 0, method |-> 1, ti_update |-> 0]],
                    0, 1)
    /\ mcp = Mixed
    /\ coefs = FullCoefs
    /\ dur_method = 100
    /\ use_dist = method_list
    /\ ret = NoCall
    /\ prev = NoCall
    /\ df = <<>>
    /\ load = NoLoad
    /\ an = Constructed("Analyzer") /\ an_ret = NoAnalyzerCall /\ sim_i = 0
    /\ NoPeople
    /\ sims \in make_sims
    /\ scens \in ScenarioObjects

NextScenarios == SimTick

SpecScenarios == InitScenarios /\ [][NextScenarios]_vars

---------------------------------------------------------------------------
(* Properties *)

\* the agents the index subset of the last call designates
CallInds == Resolved(ret.arg)

ChoseEmpowered ==
    ret.op = "choose_method" /\ ret.cls = "EmpoweredChoice" /\ ret.status = "ok"

\* the age group of an agent
AgeKeyOf(age) ==
    {immutable_method_age_map[a].key : a \in
        {b \in 1..Len(immutable_method_age_map) :
            age >= immutable_method_age_map[b].age_low
            /\ age < immutable_method_age_map[b].age_high}}

\* agent i has a table cell: its age is in a group and its parity in 0..6
HasCell(i) == AgeKeyOf(ppl.age[i]) # {} /\ ppl.parity[i] \in 0..NParity-1

CellOf(i) == mcp[CHOOSE key \in AgeKeyOf(ppl.age[i]) : TRUE][ppl.parity[i]]

CellNames(cell) == {cell[i].name : i \in 1..Len(cell)}

\* the catalog indices of the methods of agent i's cell other than its
\* current method
Candidates(i) ==
    {idx(mname) : mname \in {m \in CellNames(CellOf(i)) : idx(m) # ppl.method[i]}}

\* C1: the method EmpoweredChoice.choose_method returns for an agent whose
\* current method is a key of its table cell differs from the agent's
\* current method.
C1_NotCurrentMethod ==
    ChoseEmpowered =>
        \A k \in DOMAIN ret.value :
            LET i == ret.inds[k]
            IN (HasCell(i) /\ ppl.method[i] \in 0..n_methods-1
                /\ methods[ppl.method[i] + 1] \in CellNames(CellOf(i)))
               => ret.value[k] # ppl.method[i]

\* C2: every entry choose_method returns, for any strategy and any agent
\* of the subset (parity above 6 included), is assigned and is the index
\* of a catalog method, in [0, n_methods).
C2_ChoiceInCatalog ==
    (ret.op = "choose_method" /\ ret.status = "ok") =>
        /\ DOMAIN ret.value = DOMAIN CallInds
        /\ \A k \in DOMAIN ret.value :
              ret.assigned[k] /\ ret.value[k] \in 0..n_methods-1

\* C3: entry k of the result of EmpoweredChoice.choose_method is for agent
\* inds[k], and is one of the cell's methods other than the agent's
\* current one (for the cell {pill: 0, iud: 0.6, othtrad: 0.4} and current
\* method pill: iud or othtrad).
C3_ChoiceAmongCandidates ==
    ChoseEmpowered =>
        /\ ret.inds = CallInds
        /\ \A k \in DOMAIN ret.value :
              HasCell(ret.inds[k]) => ret.value[k] \in Candidates(ret.inds[k])

\* C4: every next-review tick set_dur_method computes is strictly greater
\* than the current tick ppl.ti.
C4_StrictlyLaterTick ==
    (ret.op = "set_dur_method" /\ ret.status = "ok") =>
        \A k \in DOMAIN ret.value : ret.assigned[k] => ret.value[k] > ppl.ti

\* C5: EmpoweredChoice.set_dur_method called with the chosen methods of a
\* subset returns one assigned tick per entry of method_used, and entry k
\* was drawn with location parameter par1 of method method_used[k] plus
\* age/100 of the agent entry k belongs to.  Stated for a subset that is
\* not empty and whose chosen methods are catalog indices (the empty
\* subset is C7's case, left-over choices C2's).
C5_DurationPerChosenEntry ==
    (ret.op = "set_dur_method" /\ ret.cls = "EmpoweredChoice"
     /\ ret.status = "ok" /\ ret.arg.given /\ ret.arg.v # <<>>
     /\ \A k \in DOMAIN ret.arg.v : ret.arg.v[k] \in 0..n_methods-1) =>
        /\ DOMAIN ret.value = DOMAIN ret.arg.v
        /\ \A k \in DOMAIN ret.value :
              /\ ret.assigned[k]
              /\ ret.loc[k] = use_dist_par1(methods[ret.arg.v[k] + 1])
                              + ppl.age[ret.inds[k]]

\* C6 as stated: choose_method gives a new method only to agents whose
\* review tick has arrived (ti_update <= ti).
C6_OnlyDueAgents ==
    (ret.op = "choose_method" /\ ret.status = "ok") =>
        \A k \in DOMAIN ret.value :
            ret.assigned[k] => ppl.ti_update[ret.inds[k]] <= ppl.ti

\* C6 as amended: choose_method gives a new method to the agents of the
\* index subset whatever their review tick: EmpoweredChoice to every agent
\* of the subset that has a table cell and a catalog method, the other
\* strategies to every agent of ppl; ti_update is not consulted.
C6_EveryAgentOfSubset ==
    (ret.op = "choose_method" /\ ret.status = "ok") =>
        /\ DOMAIN ret.value = DOMAIN ret.inds
        /\ ret.inds = CallInds
        /\ \A k \in DOMAIN ret.value :
              ret.assigned[k] <=>
                 (ret.cls = "EmpoweredChoice" =>
                     (HasCell(ret.inds[k])
                      /\ ppl.method[ret.inds[k]] \in 0..n_methods-1))

\* an agent whose review tick lies in the future was given a method
C6_Witness ==
    /\ ChoseEmpowered
    /\ \E k \in DOMAIN ret.value :
          ret.assigned[k] /\ ppl.ti_update[ret.inds[k]] > ppl.ti

\* C7: each of the four operations of every strategy, called with an index
\* subset (or chosen-method vector) of size 0, returns a vector of length
\* 0 and raises no error.
C7_EmptySubsetEmptyResult ==
    (ret.op # "" /\ ret.arg.given /\ ret.arg.v = <<>>) =>
        ret.status = "ok" /\ ret.value = <<>>

\* the shares of the cell of stratum s are non-negative
NonNegative(cell) == \A i \in 1..Len(cell) : cell[i].share >= 0

\* C8: the candidate probabilities w[i]/total passed to a multinomial draw
\* for a cell of non-negative shares are all strictly positive and sum
\* to 1.
C8_ProbabilitiesSumToOne ==
    (ret.op = "choose_method" /\ ret.cls = "EmpoweredChoice") =>
        \A d \in ret.draws :
            NonNegative(StratumCell(d.stratum)) =>
                /\ d.total # 0
                /\ SumSeq(d.w) = d.total
                /\ \A i \in 1..Len(d.w) : d.w[i] * d.total > 0

\* C9: get_prob_use of SimpleChoice and of EmpoweredChoice raises an error
\* when a required coefficient is absent from the coefficient table.
C9_AbsentCoefficientRaises ==
    (ret.op = "get_prob_use" /\ ret.cls \in {"SimpleChoice", "EmpoweredChoice"}
     /\ CoefNames \ DOMAIN coefs # {}) =>
        ret.status = "raised"

\* C10: EmpoweredChoice.choose_method raises when a non-empty stratum of
\* the call has no candidate left once the current method is removed.
C10_EmptyCandidatesRaise ==
    (ret.op = "choose_method" /\ ret.cls = "EmpoweredChoice"
     /\ \E s \in Strata :
           /\ switch_iinds(CallInds, s) # {}
           /\ Reduced(StratumCell(s), methods[s[3]]) = <<>>) =>
        ret.status = "raised"

\* C11: EmpoweredChoice.choose_method raises when the cell of a non-empty
\* stratum of the call holds a negative share, and no negative weight
\* (jittered or not) reaches renormalisation and the multinomial draw.
C11_NegativeShareRaises ==
    (ret.op = "choose_method" /\ ret.cls = "EmpoweredChoice"
     /\ \E s \in Strata :
           /\ switch_iinds(CallInds, s) # {}
           /\ ~NonNegative(StratumCell(s))) =>
        /\ ret.status = "raised"
        /\ \A d \in ret.draws : \A i \in 1..Len(d.w) : d.w[i] >= 0

\* C12: get_prob_use and choose_method raise, for the whole call, when the
\* index subset holds an index outside [0, number of agents), a negative
\* index included; no entry is computed from another agent.
C12_IndexOutOfRangeRaises ==
    (ret.op \in {"get_prob_use", "choose_method"} /\ ret.arg.given
     /\ \E k \in DOMAIN ret.arg.v : ret.arg.v[k] \notin 0..NAgents-1) =>
        ret.status = "raised"

\* the shares the rows of the source table give a method in a cell
SourceShares(akey, pkey, mlabel) ==
    {df[i].percent : i \in {r \in 1..Len(df) :
        df[r].age_grp = akey /\ df[r].parity = pkey /\ df[r].method = mlabel}}

ShareOf(cell, mname) ==
    {cell[i].share : i \in {q \in 1..Len(cell) : cell[q].name = mname}}

\* C13: after process_method_pars, in every (age group, parity) cell the
\* othtrad share is the source's other-traditional share of that cell plus
\* the source's Abstinence share of that cell, added once, and the cell has
\* no Abstinence entry.
C13_AbstinenceFoldedOnce ==
    load.status = "ok" =>
        \A akey \in DOMAIN mcp : \A pkey \in DOMAIN mcp[akey] :
            /\ ShareOf(mcp[akey][pkey], "Abstinence") = {}
            /\ \E x \in SourceShares(akey, pkey, "Other traditional"),
                  y \in SourceShares(akey, pkey, "Abstinence") :
                   ShareOf(mcp[akey][pkey], "othtrad") = {x + y}

\* a table was loaded whose cells have different Abstinence shares
C13_Witness ==
    /\ load.status = "ok"
    /\ \E akey \in DOMAIN mcp : \E p, q \in DOMAIN mcp[akey] :
          SourceShares(akey, p, "Abstinence") # SourceShares(akey, q, "Abstinence")

\* the method_used vector of the last set_dur_method call
MethodUsed == IF ret.arg.given THEN ret.arg.v ELSE ppl.method

\* C14: a call made after a share of method_choice_pars or the use_dist of
\* a catalog method was changed works from the changed value: the
\* candidate weights of every draw of choose_method are the current
\* shares of the stratum's cell (jittered where not positive), and every
\* duration of set_dur_method is drawn around the current par1 of its
\* method.
C14_CurrentValuesUsed ==
    /\ (ret.op = "choose_method" /\ ret.cls = "EmpoweredChoice") =>
          \A d \in ret.draws :
              LET raw == Reduced(mcp[immutable_method_age_map[d.stratum[1]].key]
                                    [d.stratum[2]],
                                 methods[d.stratum[3]])
              IN \E j \in JitterDraws(raw) : d.w = Jittered(raw, j)
    /\ (ret.op = "set_dur_method" /\ ret.cls = "EmpoweredChoice"
        /\ ret.status = "ok") =>
          \A k \in DOMAIN ret.value :
              ret.assigned[k] =>
                 ret.loc[k] = use_dist[methods[MethodUsed[k] + 1]] + ppl.age[k]

\* at a later tick, after a share and a location parameter were
\* overwritten, durations were drawn for methods chosen from the changed
\* table, one of them around the changed parameter
C14_Witness ==
    /\ ret.op = "set_dur_method" /\ ret.cls = "EmpoweredChoice"
    /\ ret.status = "ok" /\ ret.arg.given
    /\ ppl.ti > 0
    /\ mcp # Mixed
    /\ \E k \in DOMAIN ret.value :
          /\ ret.assigned[k]
          /\ use_dist[methods[MethodUsed[k] + 1]]
               # use_dist_par1(methods[MethodUsed[k] + 1])

\* C15: every strategy accepts the call sequence get_prob_use(ppl, inds),
\* get_contra_users(ppl, inds), choose_method(ppl, inds),
\* set_dur_method(ppl, chosen): called with a non-empty vector of agent
\* ordinals (or of chosen methods) each operation of each strategy
\* returns, and returns one entry per entry of that vector.
C15_SameCallSequenceAccepted ==
    (ret.op # "" /\ ret.arg.given /\ ret.arg.v # <<>>
     /\ (ret.op # "set_dur_method" =>
            \A k \in DOMAIN ret.arg.v : ret.arg.v[k] \in 0..NAgents-1)) =>
        /\ ret.status = "ok"
        /\ DOMAIN ret.value = DOMAIN ret.arg.v

\* C16: with intercept 0 and every coefficient 0, get_prob_use of
\* SimpleChoice and of EmpoweredChoice returns probability 0.5 (logit 0)
\* for every agent it was called for.
C16_ZeroCoefficientsGiveHalf ==
    (ret.op = "get_prob_use" /\ ret.cls \in {"SimpleChoice", "EmpoweredChoice"}
     /\ ret.status = "ok" /\ \A vname \in DOMAIN coefs : coefs[vname] = 0) =>
        /\ DOMAIN ret.value = DOMAIN CallInds
        /\ \A k \in DOMAIN ret.value : ret.value[k] = 0

\* EmpoweredChoice.get_prob_use returned for a non-empty subset under the
\* all-zero coefficient table
C16_Witness ==
    /\ ret.op = "get_prob_use" /\ ret.cls = "EmpoweredChoice"
    /\ ret.status = "ok" /\ ret.arg.given /\ ret.value # <<>>
    /\ \A vname \in CoefNames : coefs[vname] = 0
    /\ \E k \in DOMAIN ret.value : ppl.age[ret.inds[k]] > 0

\* C17: a call of get_prob_use, get_contra_users, choose_method or
\* set_dur_method changes neither the population view, nor the
\* coefficient table, nor the method-choice table, nor the use_dist
\* parameters of the catalog.
C17_CallsLeaveInputsUnchanged ==
    [][(ret' # ret /\ ret'.op # "") =>
          UNCHANGED <<ppl, coefs, mcp, use_dist>>]_vars

\* EmpoweredChoice.set_dur_method has drawn durations for users of a
\* method and the catalog is as fpd.method_list defines it
C17_Witness ==
    /\ ret.op = "set_dur_method" /\ ret.cls = "EmpoweredChoice"
    /\ ret.status = "ok"
    /\ \E k \in DOMAIN ret.value : ret.assigned[k]
    /\ use_dist = method_list /\ mcp = Mixed /\ coefs = FullCoefs

\* C18: two runs of choose_method, and of set_dur_method on the methods it
\* chose, made with the same random numbers on the same population and
\* parameters end alike and return the same vector.
C18_SameSeedSameVectors ==
    (prev.op # "" /\ prev.op = ret.op
     /\ (ret.op = "set_dur_method" => ret.arg.given /\ ret.arg.v # <<>>)) =>
        prev.status = ret.status /\ prev.value = ret.value

\* a nested mapping as Python compares dicts: key order set aside
Mapping(dd) ==
    [akey \in DOMAIN dd |->
       [pkey \in DOMAIN dd[akey] |->
          {<<dd[akey][pkey][i].name, dd[akey][pkey][i].share>> :
             i \in 1..Len(dd[akey][pkey])}]]

\* C19: process_method_pars applied again to the source table, its rows in
\* the same or in another order, gives the mapping it gave before: the
\* same age-group keys, parity keys, method names and shares.
C19_LoadingOrderIndependent ==
    load.status = "ok" =>
        LET again == process_method_pars(df)
        IN again.status = "ok" /\ Mapping(again.dd) = Mapping(mcp)

\* C20: finalize called on an analyzer that is already finalized raises
\* RuntimeError and leaves the analyzer as it was; between two calls of
\* initialize at most one call of finalize returns; initialize leaves
\* initialized true and finalized false.
C20_FinalizeOncePerInitialize ==
    /\ (an_ret.op = "finalize" /\ an_ret.before.finalized) =>
          /\ an_ret.status = "raised" /\ an_ret.err = "RuntimeError"
          /\ an = an_ret.before
    /\ an_ret.wins <= 1
    /\ an_ret.op = "initialize" => an.initialized /\ ~an.finalized

\* an education_recorder holding snapshots was finalized once and the
\* second finalize was refused
C20_Witness ==
    /\ an.cls = "education_recorder" /\ an.snapshots # <<>>
    /\ an_ret.op = "finalize" /\ an_ret.status = "raised"
    /\ an_ret.wins = 1 /\ an.initialized

\* C23: within one EmpoweredChoice.choose_method call every stratum (age
\* group, parity, current method) that has members is drawn from exactly
\* one renormalised vector: the jitter of its zero-share candidates is
\* sampled once and all its members share the result.
C23_JitterOncePerStratum ==
    (ret.op = "choose_method" /\ ret.cls = "EmpoweredChoice"
       /\ ret.status = "ok") =>
        \A s \in Strata :
            switch_iinds(CallInds, s) # {} =>
                Cardinality({d \in ret.draws : d.stratum = s}) = 1

\* two agents of one stratum were drawn, a zero-share candidate of their
\* cell having received a jitter sample larger than the smallest one
C23_Witness ==
    /\ ret.op = "choose_method" /\ ret.cls = "EmpoweredChoice"
    /\ ret.status = "ok"
    /\ \E d \in ret.draws :
          /\ d.n = 2
          /\ LET raw == Reduced(StratumCell(d.stratum), methods[d.stratum[3]])
             IN \E i \in 1..Len(raw) : raw[i] = 0 /\ d.w[i] > 1

\* C24: the number of ticks set_dur_method adds to the current tick for a
\* sampled duration differs from duration / timestep size by at most one
\* half (a rounding to the nearest whole number of ticks).  Durations are
\* in 1/100 year and the timestep in months: duration / dt is
\* dur * mpy / (100 * timestep).
C24_RoundedToNearestTick ==
    (ret.op = "set_dur_method" /\ ret.status = "ok") =>
        \A k \in DOMAIN ret.value :
            ret.assigned[k] =>
                LET ticks == ret.value[k] - ppl.ti
                    num == ret.dur[k] * mpy
                    den == 100 * ppl.timestep
                IN /\ 2 * (ticks * den - num) <= den
                   /\ 2 * (num - ticks * den) <= den

\* the keys of an sc.odict
Keys(od) == {od[n].key : n \in 1..Len(od)}

\* C21: a snapshot analyzer applied at every tick passed holds exactly one
\* entry per listed timestep among these ticks, under the key str(t), and
\* no other entry; the entry equals sim.people as it was at tick t,
\* whatever sim.people has become since.
C21_SnapshotsOfListedTicks ==
    an.cls = "snapshot" =>
        LET listed == {an.timesteps[n] : n \in 1..Len(an.timesteps)}
            passed == {t \in listed : t < sim_i}
        IN /\ Keys(an.snapshots) = {str(t) : t \in passed}
           /\ Len(an.snapshots) = Cardinality(passed)
           /\ \A n \in 1..Len(an.snapshots) :
                 \A t \in passed :
                     an.snapshots[n].key = str(t) =>
                         Stored(an.snapshots[n]) = seen[t + 1]

\* the run is over, a snapshot of tick 0 is held and sim.people has
\* changed since
C21_Witness ==
    /\ an.cls = "snapshot" /\ sim_i = MaxTi + 1
    /\ \E n \in 1..Len(an.snapshots) :
          /\ an.snapshots[n].key = str(0)
          /\ Stored(an.snapshots[n]) # people

\* C22: a snapshot analyzer with die=True does not come through a run in
\* which one of its listed timesteps is never found: when the run is over
\* and finalize has returned, every listed timestep has its snapshot.
\* With die=False apply never raises.
C22_MissingTimestepRaises ==
    an.cls = "snapshot" =>
        /\ (an.die /\ sim_i = MaxTi + 1 /\ an.finalized) =>
               \A n \in 1..Len(an.timesteps) :
                   str(an.timesteps[n]) \in Keys(an.snapshots)
        /\ (~an.die /\ an_ret.op = "apply") => an_ret.status = "ok"

\* C25: when apply has returned on a timeseries_recorder, whatever calls of
\* initialize and apply came before, the lists i, t, y and data[k] of
\* every recorded key k have the same length and data[k][j] is the mean of
\* people[k] at the tick i[j].
C25_ListsOfOneLength ==
    (an.cls = "timeseries_recorder" /\ an_ret.op = "apply") =>
        /\ Len(an.t) = Len(an.i) /\ Len(an.y) = Len(an.i)
        /\ \A n \in 1..Len(an.to_record) :
              LET k == an.to_record[n]
                  data_k == an.data[Item(an.data, k)].value
              IN /\ Len(data_k) = Len(an.i)
                 /\ \A j \in 1..Len(data_k) :
                       j <= Len(an.i) =>
                           LET was == seen[an.i[j] + 1]
                           IN data_k[j] = mean(Take(Array(was, k), DOMAIN was))

\* the living females of p whose age lies in [bins[b], bins[b+1]), bins
\* counted from 0
InBin(p, bins, b) ==
    {k \in living_females(p) :
        bins[b + 1] <= p[k].age /\ p[k].age < bins[b + 2]}

\* C26: when empowerment_recorder.apply has returned for tick i, row b of
\* column i of data[key] holds, for every key, the statistic over the
\* living females aged in [bins[b], bins[b+1]): their share of all living
\* females in the bins for age, the mean for partnered, the median for
\* sexual_autonomy.
C26_RowsAreAgeGroups ==
    (an.cls = "empowerment_recorder" /\ an_ret.op = "apply"
       /\ an_ret.status = "ok") =>
        LET i == sim_i - 1
            p == seen[i + 1]
            bins == an.bins.v
            total == Cardinality(UNION {InBin(p, bins, b) :
                                          b \in 0..an.nbins.v-1})
        IN \A n \in 1..Len(an.data) :
             \A b \in 0..an.nbins.v-1 :
               LET key == an.data[n].key
                   group == Take(Array(p, key), InBin(p, bins, b))
               IN an.data[n].value[b][i] =
                    CASE key = "age" ->
                           IF total = 0 THEN nan
                           ELSE [sum |-> Len(group), n |-> total]
                      [] key = "partnered" -> mean(group)
                      [] OTHER -> median(group)

\* the interventions of a sim whose year sim.y has reached
Reached(sim) ==
    {n \in 1..Len(sim.interventions) : sim.y >= sim.interventions[n].year}

\* the first of them in the order of the list
FirstReached(sim) == sim.interventions[Min(Reached(sim))]

\* every entry of a scenario's probs list has lost factor, value and keys
Stripped(scen) ==
    scen.probs.given =>
        \A n \in 1..Len(scen.probs.v) :
            /\ ~scen.probs.v[n].factor.given
            /\ ~scen.probs.v[n].value.given
            /\ ~scen.probs.v[n].keys.given

\* C27: on one sim the parameters change at one tick only, the first tick
\* at which sim.y has reached the year of one of its update_methods
\* interventions; they never change once sim.modified is set; and at that
\* tick the sim is changed as one apply of the first such intervention
\* of its list changes it, the others having no effect.
C27_AppliedAtOneTick ==
    [][\A s \in 1..Len(sims) :
         LET before == sims[s]
             after == sims'[s]
         IN /\ after.pars # before.pars =>
                 /\ ~before.modified /\ after.modified
                 /\ Reached(before) # {}
                 /\ \/ before.y = start_year
                    \/ Reached([before EXCEPT !.y = @ - 1]) = {}
            /\ before.modified => after.pars = before.pars
            /\ (after # before /\ ~before.modified /\ Reached(before) # {}) =>
                 after = [apply(FirstReached(before), before, scens).sim
                            EXCEPT !.y = @ + 1]]_vars

\* a sim with two interventions on two scenario objects has passed both
\* years, and its parameters were changed
C27_Witness ==
    \E s \in 1..Len(sims) :
      /\ sims[s].modified /\ sims[s].pars # make_pars
      /\ Len(sims[s].interventions) = 2
      /\ \A n \in 1..2 : sims[s].y > sims[s].interventions[n].year
      /\ sims[s].interventions[1].year > sims[s].interventions[2].year

\* C28: the apply that changes a sim leaves every entry of its scenario's
\* probs list without factor, value and keys; when the entries had already
\* lost them (the scenario object was applied to another sim before), the
\* switching matrices of the sim stay as they were and the efficacy
\* overwrite is made.
C28_SecondApplicationKeepsMatrices ==
    [][\A s \in 1..Len(sims) :
         LET before == sims[s]
             after == sims'[s]
             scen == scens[FirstReached(before).scen]
         IN (after # before /\ ~before.modified /\ Reached(before) # {}) =>
              /\ Stripped(scens'[FirstReached(before).scen])
              /\ (scen.probs.given /\ Stripped(scen)) =>
                   /\ after.pars.probs_matrix = before.pars.probs_matrix
                   /\ scen.eff.given =>
                        after.pars.method_efficacy =
                          eff_loop(before.pars.method_efficacy, scen.eff.v)]_vars

\* two sims built with the same intervention have both applied it: the
\* matrices of one were changed, those of the other are as make_pars gave
\* them, and the efficacy of both was overwritten
C28_Witness ==
    /\ Len(sims) = 2
    /\ sims[1].interventions = sims[2].interventions
    /\ sims[1].modified /\ sims[2].modified
    /\ \E s, r \in 1..2 :
          /\ sims[s].pars.probs_matrix # make_pars.probs_matrix
          /\ sims[r].pars.probs_matrix = make_pars.probs_matrix
          /\ sims[s].pars.method_efficacy # make_pars.method_efficacy
          /\ sims[r].pars.method_efficacy = sims[s].pars.method_efficacy

====
